---- MODULE Spec2Model ----
(***************************************************************************)
(* Model of the weather agent (package agent): the supervisor Agent.Run,   *)
(* the two periodic tasks runWindCheck / runRainCheck, the cycle runners   *)
(* doWindCheck / doRainCheck, the notifier sendTelegram, and the clock     *)
(* arithmetic that computes the next trigger instant.                      *)
(*                                                                         *)
(* Time is counted in whole hours of UTC.  The calendar is a short cyclic  *)
(* "year" of PeriodDays days in which Europe/London switches to summer     *)
(* time at 01:00 UTC of day 1 and back at 01:00 UTC of the last day, so    *)
(* that both daylight-saving transitions are met again and again.          *)
(***************************************************************************)
EXTENDS Integers, Sequences, FiniteSets, TLC

\* ---------------------------------------------------------------- bounds
PeriodDays == 4
\* Longest time, in hours, the network calls of one cycle take together
\* (each is cut short by its timeout or by the context).
MaxCycleHours == 2
\* Wind directions are counted in steps of 1/DegUnit of a degree.
DegUnit == 4
\* Longest forecast handed to the analyzers.
MaxDays == 3

\* ------------------------------------------------------ program constants
HoursPerDay == 24
DefaultWindHour == 10
DefaultRainHour == 8
ErrChCap == 2
FullCircle == 360
HalfCircle == 180
MorningFirstHour == 6
DropStartHour == 8
DropEndHour == 9
UmbrellaAt == 70
MaybeAt == 30
IconAt == 30

Period == PeriodDays * HoursPerDay
SpringAt == HoursPerDay + 1
AutumnAt == (PeriodDays - 1) * HoursPerDay + 1

Tasks == {"wind", "rain"}
Hours == 0 .. (HoursPerDay - 1)

\* Config values handed to New (before defaulting).
WindHourInputs == {0}
RainHourInputs == {8}
TokenInputs == {"", "tok"}
ChatIDInputs == {"", "chat"}
\* What Ollama.Generate may return on success: strings.TrimSpace(response),
\* which may be the empty string.
Summaries == {<<>>, <<"summary">>}

VARIABLES
    cfg,        \* the Config kept by New
    clock,      \* the current instant, in hours of UTC within the period
    cancelled,  \* the shared context is done
    pc,         \* where each periodic task stands
    ret,        \* what each periodic task returned
    rem,        \* hours left until the trigger a sleeping task waits for
    started,    \* what started the task's current cycle: "startup" or "timer"
    elapsed,    \* hours that passed since the task's current cycle started
    cyc,        \* what the task's current cycle has done so far
    errCh,      \* the buffered result channel of Run
    runPc,      \* where Run stands
    runRet,     \* what Run returned
    q,          \* a question put to the clock arithmetic or to an analyzer
    london      \* what time.LoadLocation gave runRainCheck

vars == <<cfg, clock, cancelled, pc, ret, rem, started, elapsed, cyc, errCh, runPc,
          runRet, q, london>>

\* ------------------------------------------------------------------ New
New(c) ==
    [c EXCEPT !.WindHour = IF c.WindHour = 0 THEN DefaultWindHour ELSE c.WindHour,
              !.RainHour = IF c.RainHour = 0 THEN DefaultRainHour ELSE c.RainHour]

\* ------------------------------------------------------ clock arithmetic
\* Offset of Europe/London from UTC, in hours, at UTC hour u.
LondonOffset(u) ==
    LET m == u % Period
    IN  IF SpringAt <= m /\ m < AutumnAt THEN 1 ELSE 0

Offset(tz, u) == IF tz = "London" THEN LondonOffset(u) ELSE 0

\* time.Date(y, m, d, hour, 0, 0, 0, loc): the wall-clock reading `wall`
\* (hours, read as if it were UTC) is turned into an instant.  The offset in
\* force at `wall` is tried; if the instant it gives lies outside the zone
\* period that offset belongs to, the offset in force at that instant is
\* used instead.
GoDate(tz, wall) ==
    LET offset == Offset(tz, wall)
    IN  IF offset # 0
        THEN LET utc == wall - offset
                 final == IF Offset(tz, utc) # offset THEN Offset(tz, utc) ELSE offset
             IN  wall - final
        ELSE wall

\* Wall-clock hour of day shown by instant u in tz.
LocalHour(tz, u) == (u + Offset(tz, u)) % HoursPerDay

\* now := time.Now().In(tz); next := time.Date(now's date, hour, tz).
Candidate(now, hour, tz) ==
    LET local == now + Offset(tz, now)
        day == local \div HoursPerDay
    IN  GoDate(tz, day * HoursPerDay + hour)

\* A roll-over that tests now.After(next) instead of !now.Before(next).
RollOverIfAfter(now, next) == IF now > next THEN next + HoursPerDay ELSE next

\* if !now.Before(next) { next = next.Add(24 * time.Hour) }
RollOver(now, next) == IF ~(now < next) THEN next + HoursPerDay ELSE next

\* The next trigger instant computed at instant `now`.
NextTrigger(now, hour, tz) == RollOver(now, Candidate(now, hour, tz))

TzOf(t) == IF t = "rain" THEN "London" ELSE "UTC"
HourOf(c, t) == IF t = "rain" THEN c.RainHour ELSE c.WindHour

\* ------------------------------------------------------------ the cycle
NoCycle ==
    [fetch |-> 0, gen |-> 0, notify |-> 0, transport |-> 0,
     fetchErr |-> FALSE, genErr |-> FALSE, sendErr |-> FALSE,
     msg |-> <<>>, log |-> {}, steps |-> <<>>]

\* formatTelegramTable wraps the table in a Markdown code block.
formatTelegramTable(table) == <<"fence", "nl">> \o table \o <<"fence">>

AnalysisOf(t) == IF t = "rain" THEN <<"schoolRun">> ELSE <<"analysis">>
ReportOf(t) == IF t = "rain" THEN <<"rainTable">> ELSE <<"windTable">>

\* A composition that appends the summary whatever Generate returned.
ComposeMsgAlways(t, ok, summary) ==
    AnalysisOf(t) \o <<"nl">> \o formatTelegramTable(ReportOf(t)) \o <<"nl">> \o summary

\* msg := analysis + newline + formatTelegramTable(report);
\* if err == nil { msg += newline + summary }
ComposeMsg(t, ok, summary) ==
    LET base == AnalysisOf(t) \o <<"nl">> \o formatTelegramTable(ReportOf(t))
    IN  IF ok THEN base \o <<"nl">> \o summary ELSE base

\* A guard that looks at the token alone.
HasTokenOnly(c) == ~(c.TelegramToken = "")

\* sendTelegram returns at once when a credential is empty.
HasCredentials(c) == ~(c.TelegramToken = "" \/ c.TelegramChatID = "")

Fetching(t) == pc[t] = "fetch"

\* A fetch failure that is returned up to the periodic task, which returns it.
FetchFailReturned(t) ==
    /\ Fetching(t)
    /\ pc' = [pc EXCEPT ![t] = "returned"]
    /\ ret' = [ret EXCEPT ![t] = "fetchErr"]
    /\ cyc' = [cyc EXCEPT ![t].fetch = @ + 1, ![t].fetchErr = TRUE,
                          ![t].log = @ \cup {"fetch"}, ![t].steps = <<"fetch">>]
    /\ UNCHANGED <<cfg, clock, cancelled, rem, started, elapsed, errCh, runPc, runRet, q, london>>

\* A fetch failure that is logged and then ignored: the cycle goes on.
FetchFailIgnored(t) ==
    /\ Fetching(t)
    /\ pc' = [pc EXCEPT ![t] = "generate"]
    /\ cyc' = [cyc EXCEPT ![t].fetch = @ + 1, ![t].fetchErr = TRUE,
                          ![t].log = @ \cup {"fetch"}, ![t].steps = <<"fetch">>]
    /\ UNCHANGED <<cfg, clock, cancelled, ret, rem, started, elapsed, errCh, runPc,
                   runRet, q, london>>

\* Fetch returned an error: log it and return from the cycle.
FetchFail(t) ==
    /\ Fetching(t)
    /\ pc' = [pc EXCEPT ![t] = "loop"]
    /\ cyc' = [cyc EXCEPT ![t].fetch = @ + 1, ![t].fetchErr = TRUE,
                          ![t].log = @ \cup {"fetch"}, ![t].steps = <<"fetch">>]
    /\ UNCHANGED <<cfg, clock, cancelled, ret, rem, started, elapsed, errCh, runPc, runRet, q, london>>

\* An order in which the analysis is computed before the table is built.
StepsOfFetchAnalysisFirst(t) == <<"fetch", "analysis", "table">>

\* forecast, err := Fetch(...); report := buildForecastTable(forecast) (or
\* buildRainTable); analysis := buildEasterlyAnalysis(forecast) (or
\* analyzeSchoolRun): the statements of the cycle up to the prompt.
StepsOfFetch(t) == <<"fetch", "table", "analysis">>

\* Fetch returned a forecast (never with a cancelled context); the table
\* and the analysis are computed from it.
FetchOK(t) ==
    /\ Fetching(t)
    /\ ~cancelled
    /\ pc' = [pc EXCEPT ![t] = "generate"]
    /\ cyc' = [cyc EXCEPT ![t].fetch = @ + 1, ![t].steps = StepsOfFetch(t)]
    /\ UNCHANGED <<cfg, clock, cancelled, ret, rem, started, elapsed, errCh, runPc, runRet, q, london>>

\* a.sendTelegram(msg): the message is handed to the notifier, which calls
\* the transport only when both credentials are set.
HandToNotifier(t, msg, c) ==
    IF HasCredentials(cfg)
    THEN /\ pc' = [pc EXCEPT ![t] = "send"]
         /\ cyc' = [c EXCEPT ![t].msg = msg, ![t].notify = @ + 1,
                             ![t].transport = @ + 1,
                             ![t].steps = Append(@, "notify")]
    ELSE /\ pc' = [pc EXCEPT ![t] = "loop"]
         /\ cyc' = [c EXCEPT ![t].msg = msg, ![t].notify = @ + 1,
                             ![t].steps = Append(@, "notify")]

\* A cycle that gives up when its summarization was cancelled.
GenerateGivesUpOnCancel(t, ok, summary) ==
    /\ pc[t] = "generate"
    /\ ok => ~cancelled
    /\ LET c == [cyc EXCEPT ![t].gen = @ + 1, ![t].genErr = ~ok,
                            ![t].steps = @ \o <<"summarize", "compose">>]
       IN  IF cancelled
           THEN pc' = [pc EXCEPT ![t] = "loop"] /\ cyc' = c
           ELSE HandToNotifier(t, ComposeMsg(t, ok, summary), c)
    /\ UNCHANGED <<cfg, clock, cancelled, ret, rem, started, elapsed, errCh, runPc, runRet, q, london>>

\* Ollama.Generate returned; the message is composed and handed over.
Generate(t, ok, summary) ==
    /\ pc[t] = "generate"
    /\ ok => ~cancelled
    /\ LET c == [cyc EXCEPT ![t].gen = @ + 1, ![t].genErr = ~ok,
                            ![t].steps = @ \o <<"summarize", "compose">>]
       IN  HandToNotifier(t, ComposeMsg(t, ok, summary), c)
    /\ UNCHANGED <<cfg, clock, cancelled, ret, rem, started, elapsed, errCh, runPc, runRet, q, london>>

GenerateOK(t) == \E s \in Summaries : Generate(t, TRUE, s)
GenerateFail(t) == Generate(t, FALSE, <<>>)

\* A notifier whose error ends the periodic task.
SendDoneEscalating(t, ok) ==
    /\ pc[t] = "send"
    /\ pc' = [pc EXCEPT ![t] = IF ok THEN "loop" ELSE "returned"]
    /\ ret' = [ret EXCEPT ![t] = IF ok THEN @ ELSE "telegramErr"]
    /\ cyc' = [cyc EXCEPT ![t].sendErr = ~ok,
                          ![t].log = IF ok THEN @ ELSE @ \cup {"telegram"}]
    /\ UNCHANGED <<cfg, clock, cancelled, rem, started, elapsed, errCh, runPc, runRet, q, london>>

\* A notifier that sends again after a failure.
SendDoneRetried(t, ok) ==
    /\ pc[t] = "send"
    /\ pc' = [pc EXCEPT ![t] = IF ok THEN "loop" ELSE "send"]
    /\ cyc' = [cyc EXCEPT ![t].sendErr = ~ok,
                          ![t].transport = IF ok THEN @ ELSE @ + 1,
                          ![t].log = IF ok THEN @ ELSE @ \cup {"telegram"}]
    /\ UNCHANGED <<cfg, clock, cancelled, ret, rem, started, elapsed, errCh, runPc,
                   runRet, q, london>>

\* sendTelegramMessage returned; an error is printed and dropped.
SendDone(t, ok) ==
    /\ pc[t] = "send"
    /\ pc' = [pc EXCEPT ![t] = "loop"]
    /\ cyc' = [cyc EXCEPT ![t].sendErr = ~ok,
                          ![t].log = IF ok THEN @ ELSE @ \cup {"telegram"}]
    /\ UNCHANGED <<cfg, clock, cancelled, ret, rem, started, elapsed, errCh, runPc,
                   runRet, q, london>>

SendOK(t) == SendDone(t, TRUE)
SendFail(t) == SendDone(t, FALSE)

\* ------------------------------------------------------ the periodic task
\* Head of the loop: read the clock (in the rain task, in the zone that was
\* loaded), compute the next trigger, arm the timer.
SleepUntilNext(t) ==
    /\ pc[t] = "loop"
    /\ t = "rain" => london # "nil"
    /\ pc' = [pc EXCEPT ![t] = "sleep"]
    /\ rem' = [rem EXCEPT ![t] = NextTrigger(clock, HourOf(cfg, t), TzOf(t)) - clock]
    /\ cyc' = [cyc EXCEPT ![t] = NoCycle]
    /\ elapsed' = [elapsed EXCEPT ![t] = 0]
    /\ UNCHANGED <<cfg, clock, cancelled, ret, started, errCh, runPc, runRet, q, london>>

\* A timer that fires at once, and a select that looks at the context only
\* once the timer has fired.
TimerReadyAtOnce(t) == pc[t] = "sleep"
CtxDoneReadyAfterTimer(t) == pc[t] = "sleep" /\ cancelled /\ rem[t] <= 0

\* A timer that is served only while the other task is outside a cycle.
TimerReadyWhenOtherIdle(t) ==
    /\ pc[t] = "sleep"
    /\ rem[t] <= 0
    /\ \A u \in Tasks \ {t} : pc[u] \notin {"fetch", "generate", "send", "loop"}

\* The two cases of the select in the loop.
TimerReady(t) == pc[t] = "sleep" /\ rem[t] <= 0
CtxDoneReady(t) == pc[t] = "sleep" /\ cancelled

\* case <-time.After(time.Until(next)): run the next cycle.
Wake(t) ==
    /\ TimerReady(t)
    /\ pc' = [pc EXCEPT ![t] = "fetch"]
    /\ started' = [started EXCEPT ![t] = "timer"]
    /\ UNCHANGED <<cfg, clock, cancelled, ret, rem, elapsed, cyc, errCh, runPc,
                   runRet, q, london>>

\* case <-ctx.Done(): return ctx.Err()
CtxDone(t) ==
    /\ CtxDoneReady(t)
    /\ pc' = [pc EXCEPT ![t] = "returned"]
    /\ ret' = [ret EXCEPT ![t] = "ctxErr"]
    /\ UNCHANGED <<cfg, clock, cancelled, rem, started, elapsed, cyc, errCh, runPc, runRet, q, london>>

\* A result channel that holds one value only.
SendResultCapOne(t) ==
    /\ pc[t] = "returned"
    /\ Len(errCh) < 1
    /\ errCh' = Append(errCh, ret[t])
    /\ pc' = [pc EXCEPT ![t] = "exited"]
    /\ UNCHANGED <<cfg, clock, cancelled, ret, rem, started, elapsed, cyc, runPc, runRet, q, london>>

\* errCh <- a.runWindCheck(ctx)
SendResult(t) ==
    /\ pc[t] = "returned"
    /\ Len(errCh) < ErrChCap
    /\ errCh' = Append(errCh, ret[t])
    /\ pc' = [pc EXCEPT ![t] = "exited"]
    /\ UNCHANGED <<cfg, clock, cancelled, ret, rem, started, elapsed, cyc, runPc, runRet, q, london>>

\* ------------------------------------------------------------ supervisor
\* case err := <-errCh: return err
RunRecv ==
    /\ runPc = "select"
    /\ errCh # <<>>
    /\ runRet' = Head(errCh)
    /\ errCh' = Tail(errCh)
    /\ runPc' = "returned"
    /\ UNCHANGED <<cfg, clock, cancelled, pc, ret, rem, started, elapsed, cyc, q, london>>

\* case <-ctx.Done(): return ctx.Err()
RunCtxDone ==
    /\ runPc = "select"
    /\ cancelled
    /\ runRet' = "ctxErr"
    /\ runPc' = "returned"
    /\ UNCHANGED <<cfg, clock, cancelled, pc, ret, rem, started, elapsed, cyc, errCh, q, london>>

\* ------------------------------------------------------------ environment
\* The shared context is cancelled.
Cancel ==
    /\ ~cancelled
    /\ cancelled' = TRUE
    /\ UNCHANGED <<cfg, clock, pc, ret, rem, started, elapsed, cyc, errCh, runPc, runRet, q, london>>

InCycle(t) == pc[t] \in {"fetch", "generate", "send", "loop"}

Alive(t) == pc[t] \notin {"returned", "exited", "crashed"}

\* One hour passes.  A select with a ready case proceeds before time does,
\* and the calls of a cycle do not outlast MaxCycleHours.  Once both tasks
\* have returned nothing reads the clock any more.
Tick ==
    /\ \E t \in Tasks : Alive(t)
    /\ \A t \in Tasks : ~TimerReady(t) /\ ~CtxDoneReady(t)
    /\ \A t \in Tasks : InCycle(t) => elapsed[t] < MaxCycleHours
    /\ clock' = (clock + 1) % Period
    /\ rem' = [t \in Tasks |-> IF pc[t] = "sleep" THEN rem[t] - 1 ELSE rem[t]]
    /\ elapsed' = [t \in Tasks |-> IF InCycle(t) THEN elapsed[t] + 1 ELSE elapsed[t]]
    /\ UNCHANGED <<cfg, cancelled, pc, ret, started, cyc, errCh, runPc, runRet, q, london>>

\* ------------------------------------------------------------ behaviours
ConfigInputs ==
    [WindHour : WindHourInputs, RainHour : RainHourInputs,
     TelegramToken : TokenInputs, TelegramChatID : ChatIDInputs]

NoQuery == [phase |-> "none"]

\* Run has started both goroutines, at any hour of the first day; each is
\* about to run its first cycle.
InitAgent ==
    /\ cfg \in {New(c) : c \in ConfigInputs}
    /\ clock \in Hours
    /\ cancelled = FALSE
    /\ pc = [t \in Tasks |-> "fetch"]
    /\ ret = [t \in Tasks |-> "none"]
    /\ rem = [t \in Tasks |-> 0]
    /\ started = [t \in Tasks |-> "startup"]
    /\ elapsed = [t \in Tasks |-> 0]
    /\ cyc = [t \in Tasks |-> NoCycle]
    /\ errCh = <<>>
    /\ runPc = "select"
    /\ runRet = "none"

\* The zone database has Europe/London.
Init == InitAgent /\ q = NoQuery /\ london = "Europe/London"

TaskStep(t) ==
    \/ FetchOK(t)
    \/ FetchFail(t)
    \/ GenerateOK(t)
    \/ GenerateFail(t)
    \/ SendOK(t)
    \/ SendFail(t)
    \/ SleepUntilNext(t)
    \/ Wake(t)
    \/ CtxDone(t)
    \/ SendResult(t)

Next ==
    \/ \E t \in Tasks : TaskStep(t)
    \/ RunRecv
    \/ RunCtxDone
    \/ Cancel
    \/ Tick

Spec == Init /\ [][Next]_vars

\* Each goroutine is scheduled and each call of a cycle returns (weak
\* fairness of the task's steps), and time goes on.
FairSpec ==
    /\ Init
    /\ [][Next]_vars
    /\ WF_vars(Tick)
    /\ \A t \in Tasks : WF_vars(TaskStep(t))

\* ------------------------------------------------- the clock arithmetic alone
\* Every trigger hour a Config may carry, put to New, and every instant of
\* the period: the loop head of one task computes its next trigger, and the
\* task then sleeps through to that trigger and computes again.
ClockConfigInputs ==
    [WindHour : Hours, RainHour : Hours, TelegramToken : {""}, TelegramChatID : {""}]

InitClock ==
    /\ cfg \in {New(c) : c \in {d \in ClockConfigInputs : d.WindHour = d.RainHour}}
    /\ clock \in 0 .. (Period - 1)
    /\ q \in [phase : {"asked"}, task : Tasks]
    /\ cancelled = FALSE
    /\ pc = [t \in Tasks |-> "fetch"]
    /\ ret = [t \in Tasks |-> "none"]
    /\ rem = [t \in Tasks |-> 0]
    /\ started = [t \in Tasks |-> "startup"]
    /\ elapsed = [t \in Tasks |-> 0]
    /\ cyc = [t \in Tasks |-> NoCycle]
    /\ errCh = <<>>
    /\ runPc = "select"
    /\ runRet = "none"
    /\ london = "Europe/London"

\* now := time.Now(); next := ...; time.Until(next)
ComputeNext ==
    /\ q.phase = "asked"
    /\ q' = [phase |-> "answered", task |-> q.task,
             dur |-> NextTrigger(clock, HourOf(cfg, q.task), TzOf(q.task)) - clock]
    /\ UNCHANGED <<cfg, clock, cancelled, pc, ret, rem, started, elapsed, cyc, errCh,
                   runPc, runRet, london>>

\* <-time.After(...): the clock reaches the trigger.
SleepThrough ==
    /\ q.phase = "answered"
    /\ clock' = (clock + (IF q.dur > 0 THEN q.dur ELSE 0)) % Period
    /\ q' = [phase |-> "asked", task |-> q.task]
    /\ UNCHANGED <<cfg, cancelled, pc, ret, rem, started, elapsed, cyc, errCh,
                   runPc, runRet, london>>

NextClock == ComputeNext \/ SleepThrough

ClockSpec == InitClock /\ [][NextClock]_vars

\* ------------------------------------------------------ the wind analyzers
\* int(x) of a float64 counted in steps of 1/DegUnit: the fraction is dropped.
GoInt(x) == IF x >= 0 THEN x \div DegUnit ELSE -((-x) \div DegUnit)

\* a % b on ints: the remainder has the sign of a.
GoMod(a, b) == IF a >= 0 THEN a % b ELSE -((-a) % b)

\* deg = float64(int(deg+360) % 360), in whole degrees.
NormDeg(deg) == GoMod(GoInt(deg + FullCircle * DegUnit), FullCircle)

isEasterly(deg) == NormDeg(deg) > 0 /\ NormDeg(deg) < HalfCircle

\* A compass reading taken from the direction as it is, fraction and all.
degToCompassOfFraction(deg) ==
    LET n == deg % (FullCircle * DegUnit)
    IN  IF n > 0 /\ n < HalfCircle * DegUnit THEN "E" ELSE "W"

degToCompass(deg) ==
    IF NormDeg(deg) > 0 /\ NormDeg(deg) < HalfCircle THEN "E" ELSE "W"

\* One row per day: the Dir column and the East marker.
buildForecastTable(days) ==
    [i \in DOMAIN days |->
        [Dir |-> degToCompass(days[i].WindDirMean),
         East |-> IF isEasterly(days[i].WindDirMean) THEN "plane" ELSE "blank"]]

RECURSIVE countEasterlyDays(_)
countEasterlyDays(days) ==
    IF days = <<>> THEN 0
    ELSE (IF isEasterly(Head(days).WindDirMean) THEN 1 ELSE 0)
         + countEasterlyDays(Tail(days))

\* An analysis that calls a tie for the west.
buildEasterlyAnalysisNoTie(days) ==
    LET eastCount == countEasterlyDays(days)
        westCount == Len(days) - eastCount
    IN  [dominant |-> IF eastCount > westCount THEN "E" ELSE "W",
         east |-> eastCount, west |-> westCount]

\* "Dominant: %s | East: %d days | West: %d days"
buildEasterlyAnalysis(days) ==
    LET eastCount == countEasterlyDays(days)
        westCount == Len(days) - eastCount
    IN  [dominant |-> IF eastCount > westCount THEN "E"
                      ELSE IF westCount > eastCount THEN "W" ELSE "Mixed",
         east |-> eastCount, west |-> westCount]

\* Forecasts put to the wind analyzers: every direction from 0 to 360
\* degrees in steps of 1/DegUnit as a one-day forecast, and every forecast
\* of up to MaxDays days over a few directions.
Directions == 0 .. (FullCircle * DegUnit)
DirectionSamples ==
    {0, DegUnit \div 2, 90 * DegUnit, HalfCircle * DegUnit, 270 * DegUnit}
ForecastDayOf(d) == [WindDirMean |-> d]
WindForecasts ==
    {<<ForecastDayOf(d)>> : d \in Directions}
    \cup UNION {[1 .. n -> {ForecastDayOf(d) : d \in DirectionSamples}] : n \in 0 .. MaxDays}

\* The agent stands still while an analyzer is questioned.
AgentAtRest ==
    /\ cfg = New([WindHour |-> 0, RainHour |-> 0, TelegramToken |-> "",
                  TelegramChatID |-> ""])
    /\ clock = 0
    /\ cancelled = FALSE
    /\ pc = [t \in Tasks |-> "fetch"]
    /\ ret = [t \in Tasks |-> "none"]
    /\ rem = [t \in Tasks |-> 0]
    /\ started = [t \in Tasks |-> "startup"]
    /\ elapsed = [t \in Tasks |-> 0]
    /\ cyc = [t \in Tasks |-> NoCycle]
    /\ errCh = <<>>
    /\ runPc = "select"
    /\ runRet = "none"
    /\ london = "Europe/London"

InitWind == AgentAtRest /\ q \in [phase : {"asked"}, days : WindForecasts]

\* report := buildForecastTable(days); analysis := buildEasterlyAnalysis(days)
AnalyzeWind ==
    /\ q.phase = "asked"
    /\ q' = [phase |-> "answered", days |-> q.days,
             report |-> buildForecastTable(q.days),
             analysis |-> buildEasterlyAnalysis(q.days)]
    /\ UNCHANGED <<cfg, clock, cancelled, pc, ret, rem, started, elapsed, cyc, errCh,
                   runPc, runRet, london>>

WindSpec == InitWind /\ [][AnalyzeWind]_vars

\* ------------------------------------------------------ the rain analyzers
SetMax(S) == CHOOSE x \in S : \A y \in S : y <= x

\* A weekend test that knows Saturday only.
IsWeekendSaturdayOnly(weekday) == weekday = "Saturday"

\* weekday == time.Saturday || weekday == time.Sunday
IsWeekend(weekday) == weekday = "Saturday" \/ weekday = "Sunday"

\* A drop-off probability without the fall-back on a maximum of 0.
getHourProbNoFallback(day, startHour, endHour) ==
    IF Len(day.MorningRainProb) = 0 THEN day.PrecipProb
    ELSE SetMax({0} \cup
                {day.MorningRainProb[i + 1] :
                    i \in {j \in (startHour - MorningFirstHour) .. (endHour - MorningFirstHour) :
                              j >= 0 /\ j < Len(day.MorningRainProb)}})

\* MorningRainProb holds the hours from MorningFirstHour on; the loop runs
\* over the indices of startHour .. endHour that the slice has.
getHourProb(day, startHour, endHour) ==
    IF Len(day.MorningRainProb) = 0 THEN day.PrecipProb
    ELSE LET maxProb ==
                 SetMax({0} \cup
                        {day.MorningRainProb[i + 1] :
                            i \in {j \in (startHour - MorningFirstHour) .. (endHour - MorningFirstHour) :
                                      j >= 0 /\ j < Len(day.MorningRainProb)}})
         IN  IF maxProb = 0 THEN day.PrecipProb ELSE maxProb

\* A pickup probability that reads the late window on every weekday.
getPickupProbLateOnly(day, weekday) ==
    IF Len(day.AfternoonProb) = 0 THEN day.PrecipProb
    ELSE LET maxProb ==
                 SetMax({0} \cup
                        {day.AfternoonProb[i + 1] :
                            i \in {j \in 2 .. 3 : j < Len(day.AfternoonProb)}})
         IN  IF maxProb = 0 THEN day.PrecipProb ELSE maxProb

\* AfternoonProb holds the hours 15..18: indices 0,1 on a Wednesday and
\* indices 2,3 on the other days.
getPickupProb(day, weekday) ==
    IF Len(day.AfternoonProb) = 0 THEN day.PrecipProb
    ELSE LET window == IF weekday = "Wednesday" THEN 0 .. 1 ELSE 2 .. 3
             maxProb ==
                 SetMax({0} \cup
                        {day.AfternoonProb[i + 1] :
                            i \in {j \in window : j < Len(day.AfternoonProb)}})
         IN  IF maxProb = 0 THEN day.PrecipProb ELSE maxProb

\* A banding that asks for more than UmbrellaAt.
BandAbove(prob) ==
    IF prob > UmbrellaAt THEN "umbrella"
    ELSE IF prob >= MaybeAt THEN "maybe" ELSE "clear"

\* The line analyzeSchoolRun writes for a probability: "Umbrella!",
\* "Maybe umbrella" or the bare percentage.
Band(prob) ==
    IF prob >= UmbrellaAt THEN "umbrella"
    ELSE IF prob >= MaybeAt THEN "maybe" ELSE "clear"

Icon(prob) == IF prob >= IconAt THEN "umbrella" ELSE "blank"

\* One row per day: Rain%, and the Drop and Pick columns.
buildRainTable(days) ==
    [i \in DOMAIN days |->
        LET day == days[i]
        IN  IF IsWeekend(day.Weekday)
            THEN [Rain |-> day.PrecipProb, Drop |-> "--", Pick |-> "--"]
            ELSE [Rain |-> day.PrecipProb,
                  Drop |-> Icon(getHourProb(day, DropStartHour, DropEndHour)),
                  Pick |-> Icon(getPickupProb(day, day.Weekday))]]

\* An analysis of the last day of the forecast.
analyzeSchoolRunOfLast(days) ==
    IF Len(days) = 0 THEN [kind |-> "noData"]
    ELSE LET today == days[Len(days)]
             weekday == today.Weekday
         IN  IF IsWeekend(weekday) THEN [kind |-> "weekend"]
             ELSE LET dropProb == getHourProb(today, DropStartHour, DropEndHour)
                      pickProb == getPickupProb(today, weekday)
                  IN  [kind |-> "school",
                       drop |-> [band |-> Band(dropProb), prob |-> dropProb],
                       pick |-> [band |-> Band(pickProb), prob |-> pickProb,
                                 time |-> IF weekday = "Wednesday"
                                          THEN "15:15-16" ELSE "17-18"]]

\* "No forecast data", "Weekend - no school!", or the drop-off line and the
\* pickup line for days[0].
analyzeSchoolRun(days) ==
    IF Len(days) = 0 THEN [kind |-> "noData"]
    ELSE LET today == days[1]
             weekday == today.Weekday
         IN  IF IsWeekend(weekday) THEN [kind |-> "weekend"]
             ELSE LET dropProb == getHourProb(today, DropStartHour, DropEndHour)
                      pickProb == getPickupProb(today, weekday)
                  IN  [kind |-> "school",
                       drop |-> [band |-> Band(dropProb), prob |-> dropProb],
                       pick |-> [band |-> Band(pickProb), prob |-> pickProb,
                                 time |-> IF weekday = "Wednesday"
                                          THEN "15:15-16" ELSE "17-18"]]

\* Forecasts put to the rain analyzers.  The first day has any weekday, a
\* morning slice of 0 to 5 hours and an afternoon slice of 0 to 4 hours
\* with probabilities on either side of each threshold; up to MaxDays - 1
\* further days follow, a rainy Saturday and a Wednesday in turn.
Weekdays ==
    {"Sunday", "Monday", "Tuesday", "Wednesday", "Thursday", "Friday", "Saturday"}
Probs == {0, MaybeAt - 1, MaybeAt, UmbrellaAt - 1, UmbrellaAt}
PrecipInputs == {0, MaybeAt - 1, UmbrellaAt}
MorningInputs ==
    {SubSeq(<<90, 90, x, y, 90>>, 1, n) : x \in Probs, y \in Probs, n \in 0 .. 5}
AfternoonInputs ==
    {SubSeq(<<a, 10, c, 10>>, 1, n) : a \in Probs, c \in Probs, n \in 0 .. 4}
FirstDays ==
    [Weekday : Weekdays, PrecipProb : PrecipInputs,
     MorningRainProb : MorningInputs, AfternoonProb : AfternoonInputs]
LaterDay(i) ==
    IF i % 2 = 1
    THEN [Weekday |-> "Saturday", PrecipProb |-> 100,
          MorningRainProb |-> <<100, 100, 100, 100, 100>>,
          AfternoonProb |-> <<100, 100, 100, 100>>]
    ELSE [Weekday |-> "Wednesday", PrecipProb |-> 50,
          MorningRainProb |-> <<0, 0, 50, 0, 0>>, AfternoonProb |-> <<0, 0, 80, 0>>]
RainForecasts ==
    {<<>>} \cup
    {<<d>> \o [i \in 1 .. n |-> LaterDay(i)] : d \in FirstDays, n \in 0 .. (MaxDays - 1)}

InitRain == AgentAtRest /\ q \in [phase : {"asked"}, days : RainForecasts]

\* report := buildRainTable(forecast); schoolRun := analyzeSchoolRun(forecast)
AnalyzeRain ==
    /\ q.phase = "asked"
    /\ q' = [phase |-> "answered", days |-> q.days,
             report |-> buildRainTable(q.days),
             schoolRun |-> analyzeSchoolRun(q.days)]
    /\ UNCHANGED <<cfg, clock, cancelled, pc, ret, rem, started, elapsed, cyc, errCh,
                   runPc, runRet, london>>

RainSpec == InitRain /\ [][AnalyzeRain]_vars

\* ------------------------------------------------- a zone that did not load
\* time.LoadLocation failed and its error was dropped: london is nil.
InitTz == InitAgent /\ q = NoQuery /\ london = "nil"

\* time.Now().In(london) with a nil location panics, and the panic of a
\* goroutine ends the process.
Panic ==
    /\ pc["rain"] = "loop"
    /\ london = "nil"
    /\ pc' = [t \in Tasks |-> "crashed"]
    /\ runPc' = "crashed"
    /\ UNCHANGED <<cfg, clock, cancelled, ret, rem, started, elapsed, cyc, errCh,
                   runRet, q, london>>

NextTz == Next \/ Panic

TzSpec == InitTz /\ [][NextTz]_vars

\* ------------------------------------------------- the schedule of a task
\* A Config with any trigger hour 0..23 is handed to New; the task's loop
\* then arms its timer and is woken by it, again and again.
InitSchedule ==
    /\ cfg \in {c \in ClockConfigInputs : c.WindHour = c.RainHour}
    /\ clock \in 0 .. (Period - 1)
    /\ q \in {r \in [phase : {"given"}, task : Tasks, hour : Hours] :
                 r.hour = HourOf(cfg, r.task)}
    /\ cancelled = FALSE
    /\ pc = [t \in Tasks |-> "fetch"]
    /\ ret = [t \in Tasks |-> "none"]
    /\ rem = [t \in Tasks |-> 0]
    /\ started = [t \in Tasks |-> "startup"]
    /\ elapsed = [t \in Tasks |-> 0]
    /\ cyc = [t \in Tasks |-> NoCycle]
    /\ errCh = <<>>
    /\ runPc = "select"
    /\ runRet = "none"
    /\ london = "Europe/London"

\* agent.New(cfg)
Construct ==
    /\ q.phase = "given"
    /\ cfg' = New(cfg)
    /\ q' = [q EXCEPT !.phase = "built"]
    /\ UNCHANGED <<clock, cancelled, pc, ret, rem, started, elapsed, cyc, errCh,
                   runPc, runRet, london>>

\* now := time.Now(); next := ...; time.After(time.Until(next))
ArmTimer ==
    /\ q.phase \in {"built", "woken"}
    /\ q' = [phase |-> "armed", task |-> q.task, hour |-> q.hour,
             dur |-> NextTrigger(clock, HourOf(cfg, q.task), TzOf(q.task)) - clock]
    /\ UNCHANGED <<cfg, clock, cancelled, pc, ret, rem, started, elapsed, cyc, errCh,
                   runPc, runRet, london>>

\* case <-time.After(...): the trigger instant has come.
Trigger ==
    /\ q.phase = "armed"
    /\ clock' = (clock + (IF q.dur > 0 THEN q.dur ELSE 0)) % Period
    /\ q' = [phase |-> "woken", task |-> q.task, hour |-> q.hour]
    /\ UNCHANGED <<cfg, cancelled, pc, ret, rem, started, elapsed, cyc, errCh,
                   runPc, runRet, london>>

NextSchedule == Construct \/ ArmTimer \/ Trigger

ScheduleSpec == InitSchedule /\ [][NextSchedule]_vars

\* ------------------------------------- the single-schedule loop (Agent.Run
\* of internal/agent): one wind concern, run hour read from the environment,
\* UTC.  Its state is kept in q; cfg holds the Telegram credentials, and the
\* Weather and Ollama clients are set.
LoopCalls == {"fetch", "generate", "send"}

InitLoop ==
    /\ cfg \in [WindHour : {DefaultWindHour}, RainHour : {DefaultRainHour},
                TelegramToken : TokenInputs, TelegramChatID : ChatIDInputs]
    /\ clock \in Hours
    /\ q \in [phase : {"top"}, runHour : {0, DefaultWindHour}, fetchErr : {FALSE},
              gen : {0}, sent : {0}, rem : {0}, elapsed : {0}, ret : {"none"}]
    /\ cancelled = FALSE
    /\ pc = [t \in Tasks |-> "fetch"]
    /\ ret = [t \in Tasks |-> "none"]
    /\ rem = [t \in Tasks |-> 0]
    /\ started = [t \in Tasks |-> "startup"]
    /\ elapsed = [t \in Tasks |-> 0]
    /\ cyc = [t \in Tasks |-> NoCycle]
    /\ errCh = <<>>
    /\ runPc = "select"
    /\ runRet = "none"
    /\ london = "Europe/London"

LoopUnchanged ==
    UNCHANGED <<cfg, clock, cancelled, pc, ret, rem, started, elapsed, cyc, errCh,
                runPc, runRet, london>>

\* select { case <-ctx.Done(): return ctx.Err(); default: } at the top of
\* an iteration.
LoopTop ==
    /\ q.phase = "top"
    /\ q' = IF cancelled
            THEN [q EXCEPT !.phase = "returned", !.ret = "ctxErr"]
            ELSE [q EXCEPT !.phase = "fetch", !.fetchErr = FALSE, !.gen = 0,
                           !.sent = 0, !.elapsed = 0]
    /\ LoopUnchanged

\* forecast, err := a.cfg.Weather.Fetch(...); an error is printed, and the
\* iteration goes on with the table of the forecast it has.
LoopFetch(ok) ==
    /\ q.phase = "fetch"
    /\ ok => ~cancelled
    /\ q' = [q EXCEPT !.phase = "generate", !.fetchErr = ~ok]
    /\ LoopUnchanged

\* summary, err := a.cfg.Ollama.Generate(ctx, prompt); with credentials the
\* fallback table (on an error) or the summary is sent.
LoopGenerate(ok) ==
    /\ q.phase = "generate"
    /\ ok => ~cancelled
    /\ q' = IF HasCredentials(cfg)
            THEN [q EXCEPT !.phase = "send", !.gen = @ + 1, !.sent = @ + 1]
            ELSE [q EXCEPT !.phase = "arm", !.gen = @ + 1]
    /\ LoopUnchanged

\* sendTelegramMessage returned; an error is printed.
LoopSend ==
    /\ q.phase = "send"
    /\ q' = [q EXCEPT !.phase = "arm"]
    /\ LoopUnchanged

\* now := time.Now().UTC(); next := ...; sleep := time.Until(next)
LoopArm ==
    /\ q.phase = "arm"
    /\ q' = [q EXCEPT !.phase = "sleep",
                      !.rem = NextTrigger(clock, q.runHour, "UTC") - clock]
    /\ LoopUnchanged

\* case <-time.After(sleep):
LoopWake ==
    /\ q.phase = "sleep"
    /\ q.rem <= 0
    /\ q' = [q EXCEPT !.phase = "top"]
    /\ LoopUnchanged

\* case <-ctx.Done(): return ctx.Err()
LoopCtxDone ==
    /\ q.phase = "sleep"
    /\ cancelled
    /\ q' = [q EXCEPT !.phase = "returned", !.ret = "ctxErr"]
    /\ LoopUnchanged

\* One hour passes, while the loop sleeps with nothing ready or while a
\* call of at most MaxCycleHours is under way.
LoopTick ==
    /\ \/ q.phase = "sleep" /\ q.rem > 0 /\ ~cancelled
       \/ q.phase \in LoopCalls /\ q.elapsed < MaxCycleHours
    /\ clock' = (clock + 1) % Period
    /\ q' = IF q.phase = "sleep" THEN [q EXCEPT !.rem = @ - 1]
            ELSE [q EXCEPT !.elapsed = @ + 1]
    /\ UNCHANGED <<cfg, cancelled, pc, ret, rem, started, elapsed, cyc, errCh,
                   runPc, runRet, london>>

\* The context of the loop is cancelled.
LoopCancel ==
    /\ ~cancelled
    /\ q.phase # "returned"
    /\ cancelled' = TRUE
    /\ UNCHANGED <<cfg, clock, pc, ret, rem, started, elapsed, cyc, errCh, runPc,
                   runRet, q, london>>

NextLoop ==
    \/ LoopTop
    \/ \E ok \in BOOLEAN : LoopFetch(ok)
    \/ \E ok \in BOOLEAN : LoopGenerate(ok)
    \/ LoopSend
    \/ LoopArm
    \/ LoopWake
    \/ LoopCtxDone
    \/ LoopTick
    \/ LoopCancel

LoopSpec == InitLoop /\ [][NextLoop]_vars

\* ------------------------------------------------------------------ claims

\* C2: the next trigger instant computed at the head of either loop is
\* strictly after the instant at which it is computed and at most 24 hours
\* after it, for every instant and every configured hour: the sleep
\* duration is positive and never exceeds one day.
C2_NextTriggerInFutureWithinADay ==
    q.phase = "answered" => (q.dur > 0 /\ q.dur <= HoursPerDay)

\* The rain task computes its trigger at or after today's 08:00 London on
\* the day before the clocks change: the trigger rolls over to tomorrow.
C2_Witness ==
    /\ q.phase = "answered"
    /\ q.task = "rain"
    /\ ~(clock < Candidate(clock, HourOf(cfg, "rain"), "London"))
    /\ LondonOffset(clock) # LondonOffset(clock + q.dur)
    /\ q.dur = HoursPerDay

\* C3: every trigger instant a task sleeps until shows the configured hour
\* on the wall clock of the task's timezone, also across a daylight-saving
\* transition of Europe/London.
C3_TriggerAtConfiguredWallClockHour ==
    \A t \in Tasks :
        pc[t] = "sleep" =>
            LocalHour(TzOf(t), clock + rem[t]) = HourOf(cfg, t)

\* C4: computing the next trigger at the very instant a task was woken by
\* the previous trigger gives the instant one day later (24 hours, give or
\* take the hour of a daylight-saving shift), so consecutive triggers are a
\* day apart and a day never sees two cycles.
C4_ConsecutiveTriggersADayApart ==
    [][\A t \in Tasks :
          (pc[t] = "loop" /\ pc'[t] = "sleep" /\ started[t] = "timer" /\ elapsed[t] = 0)
              => (rem'[t] >= HoursPerDay - 1 /\ rem'[t] <= HoursPerDay + 1)]_vars

\* C1: Run, runWindCheck and runRainCheck return only once the context is
\* cancelled, and what they return is the cancellation's reason; no failed
\* fetch, summary or notification makes any of them return.
C1_ReturnOnlyOnCancellation ==
    /\ runPc = "returned" => (cancelled /\ runRet = "ctxErr")
    /\ \A t \in Tasks : ~Alive(t) => (cancelled /\ ret[t] = "ctxErr")
    /\ \A i \in 1 .. Len(errCh) : errCh[i] = "ctxErr"

\* Run has returned the cancellation reason while a cycle of the wind task
\* that was started by its timer has just ended in a notification failure,
\* and the rain task has returned.
C1_Witness ==
    /\ runPc = "returned"
    /\ runRet = "ctxErr"
    /\ pc["wind"] = "loop" /\ started["wind"] = "timer" /\ cyc["wind"].sendErr
    /\ pc["rain"] = "exited"

\* C5: a cycle whose fetch failed ends at once: one fetch, no call of the
\* summarizer, nothing handed to the notifier, and the task's next step is
\* to sleep until its next trigger.
C5_FetchFailureEndsCycle ==
    /\ [](\A t \in Tasks :
            cyc[t].fetchErr =>
                /\ pc[t] = "loop"
                /\ cyc[t].fetch = 1
                /\ cyc[t].gen = 0
                /\ cyc[t].notify = 0
                /\ cyc[t].transport = 0)
    /\ [][\A t \in Tasks :
             (cyc[t].fetchErr /\ pc'[t] # pc[t]) => (pc'[t] = "sleep" /\ rem'[t] > 0)]_vars

C5_Witness ==
    \E t \in Tasks :
        /\ ~cancelled
        /\ HasCredentials(cfg)
        /\ started[t] = "timer"
        /\ pc[t] = "loop"
        /\ cyc[t].fetchErr

\* What the two messages are, section by section.
FallbackMsg(t) == AnalysisOf(t) \o <<"nl", "fence", "nl">> \o ReportOf(t) \o <<"fence">>
FullMsg(t, summary) == FallbackMsg(t) \o <<"nl">> \o summary

Fetched(t) == pc[t] \in {"send", "loop"} /\ ~cyc[t].fetchErr

\* C6: a cycle whose fetch succeeded hands exactly one message to the
\* notifier: analysis and table without any summary when the summarizer
\* failed; analysis, table and the summary, in that order, when it succeeded.
C6_OneMessagePerFetchedCycle ==
    \A t \in Tasks :
        /\ cyc[t].notify <= 1
        /\ Fetched(t) =>
              /\ cyc[t].notify = 1
              /\ cyc[t].gen = 1
              /\ cyc[t].genErr => cyc[t].msg = FallbackMsg(t)
              /\ ~cyc[t].genErr => \E s \in Summaries : cyc[t].msg = FullMsg(t, s)

C6_Witness ==
    /\ pc["wind"] = "loop" /\ ~cyc["wind"].fetchErr /\ cyc["wind"].genErr
    /\ pc["rain"] = "loop" /\ ~cyc["rain"].fetchErr /\ ~cyc["rain"].genErr
    /\ cyc["rain"].msg = FullMsg("rain", <<"summary">>)
    /\ ~cancelled

\* C8: the transport is never invoked when the token or the chat ID is
\* empty, whichever message (fallback or full) is at hand, and the missing
\* credentials are not reported as an error.
C8_NoTransportWithoutCredentials ==
    (cfg.TelegramToken = "" \/ cfg.TelegramChatID = "") =>
        \A t \in Tasks :
            /\ pc[t] # "send"
            /\ cyc[t].transport = 0
            /\ ~cyc[t].sendErr
            /\ "telegram" \notin cyc[t].log

C8_Witness ==
    /\ cfg.TelegramToken # ""
    /\ cfg.TelegramChatID = ""
    /\ pc["wind"] = "loop" /\ cyc["wind"].notify = 1 /\ cyc["wind"].genErr
    /\ pc["rain"] = "loop" /\ cyc["rain"].notify = 1 /\ ~cyc["rain"].genErr

\* The order of a periodic task's steps.
TaskOrder ==
    {<<"fetch", "generate">>, <<"fetch", "loop">>, <<"generate", "send">>,
     <<"generate", "loop">>, <<"send", "loop">>, <<"loop", "sleep">>,
     <<"sleep", "fetch">>, <<"sleep", "returned">>, <<"returned", "exited">>}

\* C9: each periodic task runs its first cycle at once on start, and then
\* alternates: compute the next trigger, wait, run one cycle; a cycle after
\* the first starts only when the trigger instant waited for is reached.
C9_FirstCycleAtOnceThenAlternate ==
    /\ \A t \in Tasks : pc[t] = "fetch" /\ started[t] = "startup"
    /\ [][\A t \in Tasks :
             /\ pc'[t] # pc[t] => <<pc[t], pc'[t]>> \in TaskOrder
             /\ (pc'[t] = "fetch" /\ pc[t] # "fetch") =>
                    (pc[t] = "sleep" /\ rem[t] = 0 /\ started'[t] = "timer")]_vars

C9_Witness ==
    /\ pc["wind"] = "fetch" /\ started["wind"] = "timer" /\ elapsed["wind"] = 0
    /\ pc["rain"] = "sleep" /\ started["rain"] = "timer"

\* C10: when the context is cancelled while a task waits for a trigger that
\* is still ahead, the task can return at once, no time passes before it
\* does, it starts no further cycle, and it returns the cancellation reason.
C10_CancelledSleepReturnsAtOnce ==
    /\ [](\A t \in Tasks : (pc[t] = "sleep" /\ cancelled) => ENABLED CtxDone(t))
    /\ [][\A t \in Tasks :
             (pc[t] = "sleep" /\ cancelled /\ rem[t] > 0) =>
                 /\ clock' = clock
                 /\ rem'[t] = rem[t]
                 /\ \/ pc'[t] = "sleep"
                    \/ pc'[t] = "returned" /\ ret'[t] = "ctxErr"]_vars

\* A task woken by its timer before has slept half of its day away when it
\* returns.
C10_Witness ==
    \E t \in Tasks :
        /\ pc[t] = "returned"
        /\ ret[t] = "ctxErr"
        /\ started[t] = "timer"
        /\ rem[t] = HoursPerDay \div 2

\* C7: whatever way a cycle ends, the task lives on and, unless the context
\* is cancelled, runs its next cycle: without cancellation each concern
\* runs cycle after cycle for ever.
C7_CyclesForEver ==
    \A t \in Tasks :
        /\ (pc[t] = "loop") ~> (pc[t] = "fetch" \/ cancelled)
        /\ (<>cancelled) \/ []<>(pc[t] = "fetch" /\ started[t] = "timer")

\* Both tasks are in cycles started by their timers; the rain cycle has
\* just ended in a notification failure.
C7_Witness ==
    /\ ~cancelled
    /\ \A t \in Tasks : started[t] = "timer"
    /\ pc["wind"] = "fetch"
    /\ pc["rain"] = "loop" /\ cyc["rain"].sendErr

\* A direction is easterly by the rule of the classification when, brought
\* into [0,360), it lies strictly between 0 and 180 degrees.
EasterlyByRule(deg) ==
    LET n == deg % (FullCircle * DegUnit)
    IN  n > 0 /\ n < HalfCircle * DegUnit

\* C11: for every wind direction, fractional ones included, isEasterly and
\* degToCompass call the day Easterly exactly when the direction brought
\* into [0,360) is strictly greater than 0 and strictly less than 180, and
\* Westerly otherwise.
C11_EasterlyIffStrictlyBetween0And180 ==
    q.phase = "answered" =>
        \A i \in DOMAIN q.days :
            /\ (q.report[i].East = "plane") <=> EasterlyByRule(q.days[i].WindDirMean)
            /\ (q.report[i].Dir = "E") <=> EasterlyByRule(q.days[i].WindDirMean)

WindowByRule(slice, indices, overall) ==
    LET present == {slice[i + 1] : i \in {j \in indices : j + 1 \in DOMAIN slice}}
        largest == IF present = {} THEN 0 ELSE SetMax(present)
    IN  IF slice = <<>> \/ largest = 0 THEN overall ELSE largest
DropByRule(day) == WindowByRule(day.MorningRainProb, {2, 3}, day.PrecipProb)
PickByRule(day) ==
    WindowByRule(day.AfternoonProb,
                 IF day.Weekday = "Wednesday" THEN {0, 1} ELSE {2, 3}, day.PrecipProb)
SchoolDayFirst ==
    /\ q.phase = "answered"
    /\ q.days # <<>>
    /\ q.days[1].Weekday \notin {"Saturday", "Sunday"}

\* C13: on a weekday the drop-off probability reported for today is the
\* largest of the morning entries at indices 2 and 3 (08:00 and 09:00), and
\* the day's overall probability when the morning slice is empty or that
\* largest entry is exactly 0.
C13_DropOffIsMaxOfHours8And9 ==
    SchoolDayFirst => q.schoolRun.drop.prob = DropByRule(q.days[1])

C13_Witness ==
    /\ SchoolDayFirst
    /\ Len(q.days[1].MorningRainProb) = 5
    /\ q.days[1].MorningRainProb[3] = 0
    /\ q.days[1].MorningRainProb[4] = 0
    /\ q.days[1].PrecipProb = UmbrellaAt
    /\ q.schoolRun.drop.prob = UmbrellaAt

\* C14: on a weekday the pickup probability reported for today is the
\* largest of the afternoon entries at indices 0 and 1 on a Wednesday and
\* at indices 2 and 3 on any other weekday, and the day's overall
\* probability when the afternoon slice is empty or that largest entry is
\* exactly 0.
C14_PickupWindowByWeekday ==
    SchoolDayFirst => q.schoolRun.pick.prob = PickByRule(q.days[1])

C14_Witness ==
    /\ SchoolDayFirst
    /\ q.days[1].Weekday = "Wednesday"
    /\ q.days[1].AfternoonProb = <<UmbrellaAt, 10, 0, 10>>
    /\ q.schoolRun.pick.prob = UmbrellaAt

\* C15: the drop-off and the pickup probability are banded alike in the
\* analysis of today (below 30 clear, 30 to 69 possible, 70 and above
\* likely), and a weekday row of the rain table carries the icon in its
\* Drop (Pick) column exactly when the drop-off (pickup) probability of
\* that day is at least 30.
BandByRule(prob) ==
    IF prob < 30 THEN "clear" ELSE IF prob <= 69 THEN "maybe" ELSE "umbrella"
C15_BandsAndIcons ==
    /\ SchoolDayFirst =>
           /\ q.schoolRun.drop.band = BandByRule(q.schoolRun.drop.prob)
           /\ q.schoolRun.pick.band = BandByRule(q.schoolRun.pick.prob)
    /\ q.phase = "answered" =>
           \A i \in DOMAIN q.days :
               q.days[i].Weekday \notin {"Saturday", "Sunday"} =>
                   /\ (q.report[i].Drop = "umbrella") <=> (DropByRule(q.days[i]) >= 30)
                   /\ (q.report[i].Pick = "umbrella") <=> (PickByRule(q.days[i]) >= 30)

C15_Witness ==
    /\ SchoolDayFirst
    /\ q.schoolRun.drop = [band |-> "umbrella", prob |-> 70]
    /\ q.schoolRun.pick = [band |-> "maybe", prob |-> 69, time |-> "17-18"]
    /\ q.report[1].Drop = "umbrella"
    /\ q.report[1].Pick = "umbrella"

\* C16: a Saturday or a Sunday is always reported as a day without school,
\* whatever its probabilities: the analysis of today is the weekend
\* sentinel when the first day is a weekend day, and a weekend row of the
\* rain table carries no icon in its Drop and Pick columns.
C16_WeekendIsNoSchool ==
    q.phase = "answered" =>
        /\ (q.days # <<>> /\ q.days[1].Weekday \in {"Saturday", "Sunday"})
               => q.schoolRun = [kind |-> "weekend"]
        /\ \A i \in DOMAIN q.days :
               q.days[i].Weekday \in {"Saturday", "Sunday"} =>
                   q.report[i].Drop # "umbrella" /\ q.report[i].Pick # "umbrella"

C16_Witness ==
    /\ q.phase = "answered"
    /\ q.days # <<>>
    /\ q.days[1].Weekday = "Sunday"
    /\ q.days[1].PrecipProb = UmbrellaAt
    /\ Len(q.days[1].MorningRainProb) = 5
    /\ q.days[1].MorningRainProb[3] = UmbrellaAt
    /\ q.schoolRun = [kind |-> "weekend"]
    /\ q.report[1].Drop = "--"

\* C17: the analysis of today depends on the first day of the forecast
\* only: a forecast gives the same analysis as its first day alone,
\* whatever days follow it, and the empty forecast gives the
\* no-forecast-data sentinel.
C17_OnlyFirstDayCounts ==
    q.phase = "answered" =>
        IF q.days = <<>>
        THEN q.schoolRun = [kind |-> "noData"]
        ELSE /\ q.schoolRun = analyzeSchoolRun(<<q.days[1]>>)
             /\ q.schoolRun # [kind |-> "noData"]

C17_Witness ==
    /\ q.phase = "answered"
    /\ Len(q.days) = 3
    /\ q.days[1].Weekday = "Monday"
    /\ q.days[2].Weekday = "Saturday"
    /\ q.days[3].Weekday = "Wednesday"
    /\ q.schoolRun.kind = "school"
    /\ q.schoolRun.drop.prob = 0

\* C18: within one cycle nothing is retried: the Forecaster, the
\* Summarizer and the Notifier (and its transport) are each called at most
\* once, whatever they return; a call that failed is made again only by the
\* next cycle, which starts from the timer.
C18_NoRetryWithinACycle ==
    \A t \in Tasks :
        /\ cyc[t].fetch <= 1
        /\ cyc[t].gen <= 1
        /\ cyc[t].notify <= 1
        /\ cyc[t].transport <= 1
        /\ (pc[t] = "fetch" /\ started[t] = "timer") => cyc[t] = NoCycle

C18_Witness ==
    \E t \in Tasks :
        /\ pc[t] = "loop"
        /\ started[t] = "timer"
        /\ cyc[t].fetch = 1
        /\ cyc[t].gen = 1
        /\ cyc[t].genErr
        /\ cyc[t].notify = 1
        /\ cyc[t].transport = 1
        /\ cyc[t].sendErr

\* C19: a timezone that cannot be loaded is a fatal error of construction:
\* with such a timezone no periodic task starts and no cycle runs any of
\* its fetch, summarize and notify steps.
C19_NoCycleWithUnloadableZone ==
    london = "nil" =>
        \A t \in Tasks : cyc[t].fetch = 0 /\ cyc[t].gen = 0 /\ cyc[t].notify = 0

\* C20: the two periodic tasks are independent.  A task whose cycle is
\* under way, or whose timer is due, can take its next step whatever the
\* other task is doing and however long the other task's cycle has been
\* blocked; a sleeping task is woken at its trigger, never after it; and a
\* step of one task leaves everything the other task owns as it was.
C20_TasksAreIndependent ==
    /\ [](\A t \in Tasks :
            /\ (pc[t] \in {"fetch", "generate", "send", "loop"}
                \/ (pc[t] = "sleep" /\ rem[t] <= 0)) => ENABLED TaskStep(t)
            /\ pc[t] = "sleep" => rem[t] >= 0)
    /\ [][\A t \in Tasks : \A u \in Tasks \ {t} :
            TaskStep(t) =>
                /\ pc'[u] = pc[u]
                /\ cyc'[u] = cyc[u]
                /\ rem'[u] = rem[u]
                /\ ret'[u] = ret[u]
                /\ started'[u] = started[u]
                /\ elapsed'[u] = elapsed[u]]_vars

C20_Witness ==
    /\ pc["wind"] \in {"fetch", "generate", "send"}
    /\ elapsed["wind"] = MaxCycleHours
    /\ pc["rain"] = "fetch"
    /\ started["rain"] = "timer"
    /\ elapsed["rain"] = 0

\* Position of a step among the steps a cycle has run (0 when it has not).
StepAt(t, step) ==
    IF \E i \in DOMAIN cyc[t].steps : cyc[t].steps[i] = step
    THEN CHOOSE i \in DOMAIN cyc[t].steps : cyc[t].steps[i] = step
    ELSE 0
Before(t, first, second) ==
    StepAt(t, second) # 0 => (StepAt(t, first) # 0 /\ StepAt(t, first) < StepAt(t, second))

C22_CancelAbortsCallInFlight ==
    [][\A t \in Tasks :
          (cancelled /\ pc'[t] # pc[t]) =>
              /\ pc[t] = "fetch" => cyc'[t].fetchErr
              /\ pc[t] = "generate" => cyc'[t].genErr
              /\ pc[t] = "send" => cyc'[t].sendErr]_vars

\* C23: for every trigger hour 0..23 given in the Config, hour 0 included,
\* the schedule New builds keeps that hour for good, and every trigger
\* instant of the task falls at that hour on the wall clock of the task's
\* timezone.
C23_GivenHourIsKept ==
    q.phase # "given" =>
        /\ HourOf(cfg, q.task) = q.hour
        /\ q.phase = "woken" => LocalHour(TzOf(q.task), clock) = q.hour

\* C24: in the single-schedule loop an iteration whose fetch returned an
\* error aborts: it calls no Generate and sends no Telegram message, and
\* the loop goes on to the sleep for the next run.
C24_LoopAbortsOnFetchError ==
    /\ [](q.fetchErr => (q.gen = 0 /\ q.sent = 0))
    /\ [][(q.phase = "fetch" /\ q'.phase # "fetch" /\ q'.fetchErr)
              => q'.phase = "arm"]_vars

\* C25: neither task goroutine can block on delivering its result: the
\* result channel holds both results, so a periodic task that has returned
\* can always send, also after Run has returned without receiving.
C25_ResultSendNeverBlocks ==
    /\ Len(errCh) <= ErrChCap
    /\ \A t \in Tasks : pc[t] = "returned" => ENABLED SendResult(t)

C25_Witness ==
    /\ runPc = "returned"
    /\ runRet = "ctxErr"
    /\ Len(errCh) = 1
    /\ \E t \in Tasks : pc[t] = "returned"

\* C26: when the context is cancelled after a cycle's fetch has succeeded
\* and before its summarization has completed, the summarization ends as
\* a failure, and the cycle still composes the fallback message and hands
\* it to the Notifier (to the transport when the credentials are set); the
\* task returns only afterwards, from the select of its loop.
C26_CancelledSummaryStillNotified ==
    [][\A t \in Tasks :
          (cancelled /\ pc[t] = "generate" /\ pc'[t] # "generate") =>
              /\ cyc'[t].genErr
              /\ cyc'[t].msg = FallbackMsg(t)
              /\ cyc'[t].notify = 1
              /\ pc'[t] = IF HasCredentials(cfg) THEN "send" ELSE "loop"
              /\ cyc'[t].transport = IF HasCredentials(cfg) THEN 1 ELSE 0
              /\ ret'[t] = "none"]_vars

C26_Witness ==
    \E t \in Tasks :
        /\ cancelled
        /\ pc[t] = "send"
        /\ cyc[t].fetch = 1
        /\ ~cyc[t].fetchErr
        /\ cyc[t].genErr
        /\ cyc[t].msg = FallbackMsg(t)
        /\ cyc[t].transport = 1
        /\ ret[t] = "none"

\* C27: the wind table and the wind analysis agree for every forecast: the
\* table has one row per day, a row's Dir column reads E exactly when the
\* row carries the easterly marker, and the rows with the marker are as
\* many as the east count of the analysis.
C27_TableAndAnalysisAgree ==
    q.phase = "answered" =>
        /\ DOMAIN q.report = DOMAIN q.days
        /\ \A i \in DOMAIN q.report :
               (q.report[i].Dir = "E") <=> (q.report[i].East = "plane")
        /\ Cardinality({i \in DOMAIN q.report : q.report[i].East = "plane"})
               = q.analysis.east

C27_Witness ==
    /\ q.phase = "answered"
    /\ Len(q.days) = 3
    /\ q.days[1].WindDirMean = DegUnit \div 2
    /\ q.report[1] = [Dir |-> "W", East |-> "blank"]
    /\ q.report[2] = [Dir |-> "E", East |-> "plane"]
    /\ q.analysis.east = 2

====
